---- MODULE Spec2Model ----
(***************************************************************************)
(* A model of two components of langchain:                                 *)
(*                                                                         *)
(*   - KuzuQAChain._call  (src/langchain/chains/graph_qa/kuzu.py), the     *)
(*     graph question-answering pipeline, specification SpecQA;            *)
(*   - Writer             (src/langchain/llms/writer.py), the hosted       *)
(*     completion adapter, specification SpecWriter.                       *)
(*                                                                         *)
(* The two components share no state.  Each specification moves only its   *)
(* own variables and leaves the other component in its initial state.      *)
(*                                                                         *)
(* Python's Optional[X] is modelled as a sequence of length at most one:   *)
(* None is <<>> and a value v is <<v>>.                                    *)
(***************************************************************************)
EXTENDS Naturals, Sequences, FiniteSets, TLC

None == <<>>
Some(v) == <<v>>

(***************************************************************************)
(* Part 1: KuzuQAChain                                                     *)
(***************************************************************************)

VARIABLES
    pc,                \* position of _call: idle, generating, querying,
                       \* synthesizing, returned, raised
    inputs,            \* Optional: the inputs dict _call was given
    question,          \* Optional: local `question`
    generated_cypher,  \* Optional: local `generated_cypher`
    context,           \* Optional: local `context`
    result,            \* Optional: local `result`
    returned,          \* Optional: the dict _call returned
    raised,            \* Optional: the error _call ended with
    trace,             \* collaborator calls and returns of this invocation
    schemaSeen,        \* Optional: what graph.get_schema gave
    genInputs,         \* Optional: the dict cypher_generation_chain.run got
    genReturned,       \* Optional: the string cypher_generation_chain.run gave
    queryArg,          \* Optional: the statement graph.query got
    graphReturned,     \* Optional: the value graph.query gave
    graphRaised,       \* Optional: the error graph.query raised
    qaInputs           \* Optional: the dict qa_chain got

qaVars == <<pc, inputs, question, generated_cypher, context, result, returned,
            raised, trace, schemaSeen, genInputs, genReturned, queryArg,
            graphReturned, graphRaised, qaInputs>>

\* The state of the Writer component (Part 2).
VARIABLES
    environ,       \* os.environ: WRITER_API_KEY and WRITER_ORG_ID, Optional each
    writer,        \* Optional: the Writer instance, once construction succeeded
    construction,  \* Optional: the last construction attempt and how it ended
    calls,         \* per caller thread, Optional: its _call waiting inside
                   \* requests.post, with the stop list it was given
    lastPost,      \* Optional: the POST(s) issued by the _call entered last
    lastReturn,    \* Optional: the _call that ended last, and how it ended
    networkUsed    \* whether any HTTP POST has been issued so far

wVars == <<environ, writer, construction, calls, lastPost, lastReturn,
           networkUsed>>

vars == <<qaVars, wVars>>

\* KuzuQAChain.input_key, KuzuQAChain.output_key, and the output key of the
\* answer chain (qa_chain.output_key).
input_key == "query"
output_key == "result"
qa_output_key == "text"

\* What the collaborators can be asked and can answer.
Questions == {"who acted in Heat?", "how many movies?"}
Schemas == {"Node: Person", "Node: Person, Movie"}
GeneratedTexts == {"MATCH (m:Movie) RETURN m", "  MATCH (p:Person) RETURN p \n",
                   "I cannot write that query"}
Contexts == {<<>>, <<"Heat">>, <<"Heat", "Ronin">>}
AnswerTexts == {"Al Pacino", "I don't know"}
GenErrors == {"ValueError: generation failed"}
GraphErrors == {"RuntimeError: malformed query", "ConnectionError: graph down"}
QAErrors == {"ValueError: synthesis failed"}

CallInputs == {(input_key :> q) : q \in Questions}

\* A variant that hands the two values over under each other's name.
GenerationInputsSwapped(q, s) == [question |-> s, schema |-> q]

\* The dict handed to cypher_generation_chain.run.
GenerationInputs(q, s) == [question |-> q, schema |-> s]

\* A variant that strips the generated text of leading and trailing
\* whitespace first (what str.strip gives on the generated texts above).
StatementStripped(g) ==
    IF g = "  MATCH (p:Person) RETURN p \n" THEN "MATCH (p:Person) RETURN p"
    ELSE g

\* The statement handed to graph.query: the local generated_cypher, as it is.
Statement(g) == g

\* The dict handed to qa_chain.
QAInputs(q, c) == [question |-> q, context |-> c]

\* A variant that returns another field of the answer chain's result.
OutputQuestion(r) == (output_key :> r["question"])

\* The dict _call returns: the answer chain's output field under output_key.
Output(r) == (output_key :> r[qa_output_key])

QAInit ==
    /\ pc = "idle"
    /\ inputs = None
    /\ question = None
    /\ generated_cypher = None
    /\ context = None
    /\ result = None
    /\ returned = None
    /\ raised = None
    /\ trace = <<>>
    /\ schemaSeen = None
    /\ genInputs = None
    /\ genReturned = None
    /\ queryArg = None
    /\ graphReturned = None
    /\ graphRaised = None
    /\ qaInputs = None

\* _call is entered: question = inputs[input_key]; the graph's schema is read
\* and cypher_generation_chain.run is invoked with both.
Call(inp) ==
    /\ pc = "idle"
    /\ \E s \in Schemas :
        /\ schemaSeen' = Some(s)
        /\ genInputs' = Some(GenerationInputs(inp[input_key], s))
    /\ inputs' = Some(inp)
    /\ question' = Some(inp[input_key])
    /\ trace' = <<"get_schema", "generate">>
    /\ pc' = "generating"
    /\ UNCHANGED <<generated_cypher, context, result, returned, raised,
                   genReturned, queryArg, graphReturned, graphRaised, qaInputs>>
    /\ UNCHANGED wVars

\* cypher_generation_chain.run returns g; graph.query is invoked with it.
GenerationReturns(g) ==
    /\ pc = "generating"
    /\ genReturned' = Some(g)
    /\ generated_cypher' = Some(g)
    /\ queryArg' = Some(Statement(g))
    /\ trace' = trace \o <<"generate.ret", "query">>
    /\ pc' = "querying"
    /\ UNCHANGED <<inputs, question, context, result, returned, raised,
                   schemaSeen, genInputs, graphReturned, graphRaised, qaInputs>>
    /\ UNCHANGED wVars

\* cypher_generation_chain.run raises e; nothing catches it.
GenerationRaises(e) ==
    /\ pc = "generating"
    /\ raised' = Some(e)
    /\ trace' = Append(trace, "generate.raise")
    /\ pc' = "raised"
    /\ UNCHANGED <<inputs, question, generated_cypher, context, result,
                   returned, schemaSeen, genInputs, genReturned, queryArg,
                   graphReturned, graphRaised, qaInputs>>
    /\ UNCHANGED wVars

\* graph.query returns c; qa_chain is invoked with the question and c.
QueryReturns(c) ==
    /\ pc = "querying"
    /\ graphReturned' = Some(c)
    /\ context' = Some(c)
    /\ qaInputs' = Some(QAInputs(question[1], c))
    /\ trace' = trace \o <<"query.ret", "qa">>
    /\ pc' = "synthesizing"
    /\ UNCHANGED <<inputs, question, generated_cypher, result, returned,
                   raised, schemaSeen, genInputs, genReturned, queryArg,
                   graphRaised>>
    /\ UNCHANGED wVars

\* A variant that catches the graph's error and runs the query once more.
QueryRaisesRetry(e) ==
    /\ pc = "querying"
    /\ graphRaised' = Some(e)
    /\ trace' = trace \o <<"query.raise", "query">>
    /\ Len(trace) < 6
    /\ UNCHANGED <<pc, inputs, question, generated_cypher, context, result,
                   returned, raised, schemaSeen, genInputs, genReturned,
                   queryArg, graphReturned, qaInputs>>
    /\ UNCHANGED wVars

\* graph.query raises e; nothing catches it.
QueryRaises(e) ==
    /\ pc = "querying"
    /\ graphRaised' = Some(e)
    /\ raised' = Some(e)
    /\ trace' = Append(trace, "query.raise")
    /\ pc' = "raised"
    /\ UNCHANGED <<inputs, question, generated_cypher, context, result,
                   returned, schemaSeen, genInputs, genReturned, queryArg,
                   graphReturned, qaInputs>>
    /\ UNCHANGED wVars

\* qa_chain returns its inputs together with its output text a; _call
\* returns {output_key: result[qa_chain.output_key]}.
SynthesisReturns(a) ==
    /\ pc = "synthesizing"
    /\ LET r == [question |-> qaInputs[1].question,
                 context |-> qaInputs[1].context,
                 text |-> a]
       IN /\ result' = Some(r)
          /\ returned' = Some(Output(r))
    /\ trace' = Append(trace, "qa.ret")
    /\ pc' = "returned"
    /\ UNCHANGED <<inputs, question, generated_cypher, context, raised,
                   schemaSeen, genInputs, genReturned, queryArg, graphReturned,
                   graphRaised, qaInputs>>
    /\ UNCHANGED wVars

\* qa_chain raises e; nothing catches it.
SynthesisRaises(e) ==
    /\ pc = "synthesizing"
    /\ raised' = Some(e)
    /\ trace' = Append(trace, "qa.raise")
    /\ pc' = "raised"
    /\ UNCHANGED <<inputs, question, generated_cypher, context, result,
                   returned, schemaSeen, genInputs, genReturned, queryArg,
                   graphReturned, graphRaised, qaInputs>>
    /\ UNCHANGED wVars

\* The invocation is over; nothing of it is kept for the next one.
Finish ==
    /\ pc \in {"returned", "raised"}
    /\ pc' = "idle"
    /\ inputs' = None
    /\ question' = None
    /\ generated_cypher' = None
    /\ context' = None
    /\ result' = None
    /\ returned' = None
    /\ raised' = None
    /\ trace' = <<>>
    /\ schemaSeen' = None
    /\ genInputs' = None
    /\ genReturned' = None
    /\ queryArg' = None
    /\ graphReturned' = None
    /\ graphRaised' = None
    /\ qaInputs' = None
    /\ UNCHANGED wVars

(***************************************************************************)
(* Claims about KuzuQAChain, checked under SpecQA                          *)
(***************************************************************************)

IsPrefix(s, t) == Len(s) <= Len(t) /\ SubSeq(t, 1, Len(s)) = s

Count(s, x) == Cardinality({i \in 1..Len(s) : s[i] = x})

\* The collaborator calls of an invocation that returns, in order; a ".ret"
\* event is the return of the call before it (get_schema is an attribute
\* read: call and return are one event).
FullTrace == <<"get_schema", "generate", "generate.ret", "query", "query.ret",
               "qa", "qa.ret">>

RaiseEvents == {"generate.raise", "query.raise", "qa.raise"}

\* C1: in every invocation that returns an answer the collaborators were
\* called in the order schema read, query generation, graph query, answer
\* synthesis, each exactly once, and the dict returned holds the answer
\* chain's output field.  At every moment of any invocation the calls made
\* so far are an initial part of that order (possibly ended by one raise): a
\* call is only ever made right after the return of the one before it.
C1_SequentialPipeline ==
    /\ \/ IsPrefix(trace, FullTrace)
       \/ /\ trace # <<>>
          /\ trace[Len(trace)] \in RaiseEvents
          /\ IsPrefix(SubSeq(trace, 1, Len(trace) - 1), FullTrace)
    /\ pc = "returned" =>
        /\ trace = FullTrace
        /\ \A op \in {"get_schema", "generate", "query", "qa"} :
               Count(trace, op) = 1
        /\ result # None
        /\ returned = Some([result |-> result[1].text])

C1_Witness ==
    /\ pc = "returned"
    /\ returned = Some([result |-> "Al Pacino"])
    /\ graphReturned = Some(<<"Heat">>)

\* C2: once graph.query has raised, the invocation has ended with that very
\* error: the query was run once only, the answer chain was never invoked
\* and nothing was returned.
C2_GraphErrorPropagates ==
    graphRaised # None =>
        /\ pc = "raised"
        /\ raised = graphRaised
        /\ Count(trace, "query") = 1
        /\ Count(trace, "qa") = 0
        /\ qaInputs = None
        /\ returned = None

C2_Witness ==
    /\ graphRaised = Some("RuntimeError: malformed query")
    /\ queryArg = Some("I cannot write that query")
    /\ pc = "raised"

\* C3: the generation chain receives exactly the two inputs question and
\* schema, the question being the one _call was given and the schema the one
\* the graph reported in this invocation.
C3_GenerationInputs ==
    inputs # None =>
        /\ genInputs # None
        /\ schemaSeen # None
        /\ DOMAIN genInputs[1] = {"question", "schema"}
        /\ genInputs[1].question = inputs[1][input_key]
        /\ genInputs[1].schema = schemaSeen[1]

C3_Witness ==
    /\ inputs = Some([query |-> "how many movies?"])
    /\ schemaSeen = Some("Node: Person, Movie")
    /\ genInputs = Some([question |-> "how many movies?",
                         schema |-> "Node: Person, Movie"])

\* C4: whenever the generation returned, graph.query got exactly the string
\* it returned; whenever graph.query returned, the answer chain got exactly
\* the original question and the value graph.query returned.
C4_VerbatimHandOver ==
    /\ genReturned # None => queryArg = genReturned
    /\ graphReturned # None =>
        /\ qaInputs # None
        /\ DOMAIN qaInputs[1] = {"question", "context"}
        /\ qaInputs[1].question = inputs[1][input_key]
        /\ qaInputs[1].context = graphReturned[1]

C4_Witness ==
    /\ queryArg = Some("  MATCH (p:Person) RETURN p \n")
    /\ qaInputs = Some([question |-> "who acted in Heat?",
                        context |-> <<"Heat", "Ronin">>])

(***************************************************************************)
(* Part 2: Writer                                                          *)
(*                                                                         *)
(* A JSON value of the request (a number, a boolean, null) is an Optional  *)
(* token: null is None, 0.5 is Some("0.5"), false is Some("false").  Text  *)
(* that is scanned for stop sequences is a sequence of characters.         *)
(***************************************************************************)


MaxTextLen == 3

\* The class's field defaults (writer.py lines 26-66).
FieldDefaults ==
    [writer_org_id |-> None, model_id |-> "palmyra-instruct",
     min_tokens |-> None, max_tokens |-> None, temperature |-> None,
     top_p |-> None, stop |-> None, presence_penalty |-> None,
     repetition_penalty |-> None, best_of |-> None, logprobs |-> Some("false"),
     n |-> None, writer_api_key |-> None, base_url |-> None]

\* Constructor arguments tried: no argument at all; one credential only;
\* both credentials with another model id and sampling options; a base url
\* with the organization id left to the environment.
ConstructorArgs ==
    { FieldDefaults,
      [FieldDefaults EXCEPT !.writer_api_key = Some("key-arg")],
      [FieldDefaults EXCEPT !.writer_org_id = Some("org1")],
      [FieldDefaults EXCEPT !.writer_api_key = Some("key-arg"),
                            !.writer_org_id = Some("org1"),
                            !.model_id = "modelA",
                            !.temperature = Some("0.5"), !.n = Some("1")],
      [FieldDefaults EXCEPT !.writer_api_key = Some("key-arg"),
                            !.model_id = "modelA",
                            !.base_url = Some("https://x/y")] }

Environments ==
    [WRITER_API_KEY : {None, Some("key-env")},
     WRITER_ORG_ID : {None, Some("org2")}]

\* langchain.utils.get_from_dict_or_env: the value under `key` of the dict
\* when it holds one, else the environment's value under `env_key`, else an
\* error.
GetFromDictOrEnv(values, key, env_key, env) ==
    IF values[key] # None THEN [ok |-> TRUE, value |-> values[key][1]]
    ELSE IF env[env_key] # None THEN [ok |-> TRUE, value |-> env[env_key][1]]
    ELSE [ok |-> FALSE, value |-> ""]

\* A variant that resolves the API key only.
ValidateEnvironmentKeyOnly(values, env) ==
    LET k == GetFromDictOrEnv(values, "writer_api_key", "WRITER_API_KEY", env)
    IN  IF ~k.ok THEN [ok |-> FALSE, values |-> values]
        ELSE [ok |-> TRUE,
              values |-> [values EXCEPT !.writer_api_key = Some(k.value)]]

\* Writer.validate_environment: resolve the API key, then the organization
\* id; either resolution failing fails the validation.
ValidateEnvironment(values, env) ==
    LET k == GetFromDictOrEnv(values, "writer_api_key", "WRITER_API_KEY", env)
    IN  IF ~k.ok THEN [ok |-> FALSE, values |-> values]
        ELSE
          LET v1 == [values EXCEPT !.writer_api_key = Some(k.value)]
              o == GetFromDictOrEnv(v1, "writer_org_id", "WRITER_ORG_ID", env)
          IN  IF ~o.ok THEN [ok |-> FALSE, values |-> v1]
              ELSE [ok |-> TRUE,
                    values |-> [v1 EXCEPT !.writer_org_id = Some(o.value)]]

\* Writer._default_params.
DefaultParams(self) ==
    [minTokens |-> self.min_tokens, maxTokens |-> self.max_tokens,
     temperature |-> self.temperature, topP |-> self.top_p,
     stop |-> self.stop, presencePenalty |-> self.presence_penalty,
     repetitionPenalty |-> self.repetition_penalty,
     bestOf |-> self.best_of, logprobs |-> self.logprobs, n |-> self.n]

\* Python's {**a, **b}: the keys of both, b's value where both have the key.
Merge(a, b) ==
    [k \in (DOMAIN a) \cup (DOMAIN b) |-> IF k \in DOMAIN b THEN b[k] ELSE a[k]]

\* A variant of the merge in which the adapter's values win.
ParamsDefaultsWin(self, kwargs) == Merge(kwargs, DefaultParams(self))

\* params = {**self._default_params, **kwargs}
Params(self, kwargs) == Merge(DefaultParams(self), kwargs)

\* json={"prompt": prompt, **params}
JsonBody(prompt, params) == Merge([prompt |-> Some(prompt)], params)

\* An f-string's rendering of an Optional[str] field: f"{None}" is "None".
Format(field) == IF field = None THEN "None" ELSE field[1]

\* A variant that always posts to the organization's and model's endpoint.
BaseUrlIgnoringOverride(self) ==
    "https://enterprise-api.writer.com/llm"
        \o "/organization/" \o Format(self.writer_org_id)
        \o "/model/" \o self.model_id \o "/completions"

\* The url posted to: self.base_url when it is not None, else the
\* completions endpoint of the organization and the model.
BaseUrl(self) ==
    IF self.base_url # None THEN self.base_url[1]
    ELSE "https://enterprise-api.writer.com/llm"
             \o "/organization/" \o Format(self.writer_org_id)
             \o "/model/" \o self.model_id \o "/completions"

\* The headers of the POST.
Headers(self) ==
    ("Authorization" :> Format(self.writer_api_key))
        @@ ("Content-Type" :> "application/json")
        @@ ("Accept" :> "application/json")

\* The POSTs one _call issues: requests.post, once.
Posts(self, prompt, kwargs) ==
    << [url |-> BaseUrl(self), headers |-> Headers(self),
        json |-> JsonBody(prompt, Params(self, kwargs))] >>

\* Whether the word w occurs in text starting at position i.
OccursAt(text, w, i) ==
    /\ i + Len(w) - 1 <= Len(text)
    /\ SubSeq(text, i, i + Len(w) - 1) = w

\* langchain.llms.utils.enforce_stop_tokens: the text up to the leftmost
\* occurrence of any of the stop sequences, all of it when none occurs.
RECURSIVE ScanForStop(_, _, _)
ScanForStop(text, stop, i) ==
    IF i > Len(text) THEN text
    ELSE IF \E k \in 1..Len(stop) : OccursAt(text, stop[k], i)
         THEN SubSeq(text, 1, i - 1)
         ELSE ScanForStop(text, stop, i + 1)

EnforceStopTokens(text, stop) == ScanForStop(text, stop, 1)

\* A variant that returns the response text as it is.
PostProcessIgnoringStop(text, stop) == text

\* text = response.text; if stop is not None: enforce_stop_tokens(text, stop)
PostProcess(text, stop) ==
    IF stop # None THEN EnforceStopTokens(text, stop[1]) ELSE text

\* The threads that call the adapter; a _call blocks its thread inside
\* requests.post, and the other thread runs meanwhile.
Threads == {"T1", "T2"}

\* Inputs of _call.
Prompts == {"Tell me a joke."}

Alphabet == {"a", "b"}

Texts == UNION {[1..len -> Alphabet] : len \in 0..MaxTextLen}

StopLists ==
    { <<<<"b">>>>, <<<<"b">>, <<"a", "b">>>> }

StopArgs == {None} \cup {Some(l) : l \in StopLists}

EmptyDict == [k \in {} |-> None]

KwargsSet ==
    { EmptyDict,
      [temperature |-> Some("0.9"), topK |-> Some("5")] }

\* The status codes a response comes with, and the errors requests.post
\* raises when the network fails.
Statuses == {200, 500}
NetErrors == {"ConnectionError"}

WInitIn(envs) ==
    /\ environ \in envs
    /\ writer = None
    /\ construction = None
    /\ calls = [t \in Threads |-> None]
    /\ lastPost = None
    /\ lastReturn = None
    /\ networkUsed = FALSE

\* Writer(**args): the fields are set from the arguments and the defaults,
\* then validate_environment runs; when it fails, construction raises and
\* there is no instance.
Construct(args) ==
    /\ writer = None
    /\ LET v == ValidateEnvironment(args, environ)
       IN  /\ writer' = IF v.ok THEN Some(v.values) ELSE None
           /\ construction' =
                Some([args |-> args,
                      outcome |-> IF v.ok THEN "constructed" ELSE "ValueError"])
    /\ UNCHANGED <<environ, calls, lastPost, lastReturn, networkUsed>>
    /\ UNCHANGED qaVars

\* Thread t enters Writer._call(prompt, stop, **kwargs): the url, the params
\* and the headers are built and requests.post is entered; the thread now
\* waits inside it.  stop is a reference to the caller's list: stopSupplied
\* is what the list held at the call, stop what it holds now.
WriterCall(t, prompt, stop, kwargs) ==
    /\ writer # None
    /\ calls[t] = None
    /\ LET posted == Posts(writer[1], prompt, kwargs)
       IN  /\ calls' = [calls EXCEPT ![t] =
                         Some([stopSupplied |-> stop, stop |-> stop,
                               nposted |-> Len(posted)])]
           /\ lastPost' = Some([prompt |-> prompt, kwargs |-> kwargs,
                                posted |-> posted])
           /\ networkUsed' = (networkUsed \/ Len(posted) > 0)
    /\ UNCHANGED <<environ, writer, construction, lastReturn>>
    /\ UNCHANGED qaVars

\* While thread t waits inside requests.post, another thread changes the
\* contents of the list t's call was given as stop.
StopListChanged(t, l) ==
    /\ calls[t] # None
    /\ calls[t][1].stop # None
    /\ calls[t][1].stop # Some(l)
    /\ calls' = [calls EXCEPT ![t] = Some([calls[t][1] EXCEPT !.stop = Some(l)])]
    /\ UNCHANGED <<environ, writer, construction, lastPost, lastReturn,
                   networkUsed>>
    /\ UNCHANGED qaVars

\* requests.post of thread t's call raises e (the network failed); nothing
\* catches it and the call ends with it.
PostRaises(t, e) ==
    /\ calls[t] # None
    /\ lastReturn' =
         Some([stopSupplied |-> calls[t][1].stopSupplied,
               stop |-> calls[t][1].stop, nposted |-> calls[t][1].nposted,
               failed |-> TRUE, status |-> 0, text |-> <<>>,
               outcome |-> [kind |-> "raised", error |-> e, text |-> <<>>]])
    /\ calls' = [calls EXCEPT ![t] = None]
    /\ UNCHANGED <<environ, writer, construction, lastPost, networkUsed>>
    /\ UNCHANGED qaVars

\* requests.post of thread t's call returns a response with the status st
\* and the body text; the call reads response.text, then stop, and returns.
PostReturns(t, st, text) ==
    /\ calls[t] # None
    /\ lastReturn' =
         Some([stopSupplied |-> calls[t][1].stopSupplied,
               stop |-> calls[t][1].stop, nposted |-> calls[t][1].nposted,
               failed |-> FALSE, status |-> st, text |-> text,
               outcome |-> [kind |-> "returned", error |-> "",
                            text |-> PostProcess(text, calls[t][1].stop)]])
    /\ calls' = [calls EXCEPT ![t] = None]
    /\ UNCHANGED <<environ, writer, construction, lastPost, networkUsed>>
    /\ UNCHANGED qaVars

WNext ==
    \/ \E args \in ConstructorArgs : Construct(args)
    \/ \E t \in Threads, prompt \in Prompts, stop \in StopArgs,
          kwargs \in KwargsSet : WriterCall(t, prompt, stop, kwargs)
    \/ \E t \in Threads, l \in StopLists : StopListChanged(t, l)
    \/ \E t \in Threads, e \in NetErrors : PostRaises(t, e)
    \/ \E t \in Threads, st \in Statuses, text \in Texts : PostReturns(t, st, text)

(***************************************************************************)
(* Claims about Writer, checked under SpecWriter                           *)
(***************************************************************************)

\* The recognized completion options, and the field of the adapter each one
\* is read from.
OptionField ==
    [minTokens |-> "min_tokens", maxTokens |-> "max_tokens",
     temperature |-> "temperature", topP |-> "top_p", stop |-> "stop",
     presencePenalty |-> "presence_penalty",
     repetitionPenalty |-> "repetition_penalty", bestOf |-> "best_of",
     logprobs |-> "logprobs", n |-> "n"]

OptionKeys == DOMAIN OptionField

\* The JSON body of the one request of the call entered last.
SentBody == lastPost[1].posted[1].json

\* Whether some stop sequence of the list occurs in text at position i.
SomeStopAt(text, stop, i) ==
    \E k \in 1..Len(stop) : OccursAt(text, stop[k], i)

\* The response text cut right before the leftmost occurrence in it of any
\* sequence of the list stop; all of it when none occurs or stop is None.
CutAtLeftmost(T, stop, R) ==
    IF stop = None THEN R = T
    ELSE IF \E i \in 1..Len(T) : SomeStopAt(T, stop[1], i)
         THEN \E m \in 1..Len(T) :
                /\ SomeStopAt(T, stop[1], m)
                /\ \A j \in 1..(m - 1) : ~SomeStopAt(T, stop[1], j)
                /\ R = SubSeq(T, 1, m - 1)
         ELSE R = T

C6_OverridesWin ==
    lastPost # None =>
        /\ Len(lastPost[1].posted) = 1
        /\ \A k \in DOMAIN lastPost[1].kwargs :
               k \in DOMAIN SentBody /\ SentBody[k] = lastPost[1].kwargs[k]
        /\ \A k \in OptionKeys \ DOMAIN lastPost[1].kwargs :
               writer[1][OptionField[k]] # None =>
                   k \in DOMAIN SentBody
                   /\ SentBody[k] = writer[1][OptionField[k]]

\* Defaults {temperature: 0.5, n: 1} with an override of temperature to 0.9
\* send temperature 0.9 and n 1.
C6_Witness ==
    /\ lastPost # None
    /\ writer[1].temperature = Some("0.5")
    /\ writer[1].n = Some("1")
    /\ "temperature" \in DOMAIN lastPost[1].kwargs
    /\ lastPost[1].kwargs.temperature = Some("0.9")
    /\ "n" \notin DOMAIN lastPost[1].kwargs
    /\ SentBody.temperature = Some("0.9")
    /\ SentBody.n = Some("1")

\* C7: an option unset on the adapter and not overridden at the
\* call site is not a key of the request body.
C7_UnsetOmitted ==
    lastPost # None =>
        \A k \in OptionKeys :
            (writer[1][OptionField[k]] = None /\ k \notin DOMAIN lastPost[1].kwargs)
                => k \notin DOMAIN SentBody

\* C8: without a base url the POST goes to the completions endpoint of the
\* adapter's organization and model; with one, to exactly that url.
C8_Endpoint ==
    lastPost # None =>
        /\ Len(lastPost[1].posted) = 1
        /\ lastPost[1].posted[1].url =
             IF writer[1].base_url = None
             THEN "https://enterprise-api.writer.com/llm/organization/"
                      \o writer[1].writer_org_id[1] \o "/model/"
                      \o writer[1].model_id \o "/completions"
             ELSE writer[1].base_url[1]

C8_Witness ==
    /\ lastPost # None
    /\ writer[1].base_url = None
    /\ writer[1].writer_org_id = Some("org1")
    /\ writer[1].model_id = "modelA"
    /\ lastPost[1].posted[1].url =
         "https://enterprise-api.writer.com/llm/organization/org1/model/modelA/completions"

\* Whether neither the constructor arguments nor the environment hold the
\* credential.
Unavailable(args, field, env_key) ==
    args[field] = None /\ environ[env_key] = None

\* C9: a construction attempted with the API key, or the organization id,
\* given neither as an argument nor in the environment has failed with an
\* error; there is no instance, no call is under way and no POST has been
\* issued.
C9_MissingCredential ==
    (/\ construction # None
     /\ \/ Unavailable(construction[1].args, "writer_api_key", "WRITER_API_KEY")
        \/ Unavailable(construction[1].args, "writer_org_id", "WRITER_ORG_ID"))
    => /\ construction[1].outcome = "ValueError"
       /\ writer = None
       /\ \A t \in Threads : calls[t] = None
       /\ lastPost = None
       /\ networkUsed = FALSE

\* The API key is available and the organization id is not.
C9_Witness ==
    /\ construction # None
    /\ construction[1].args.writer_api_key = Some("key-arg")
    /\ Unavailable(construction[1].args, "writer_org_id", "WRITER_ORG_ID")
    /\ construction[1].outcome = "ValueError"
    /\ writer = None

\* C10, as claimed: a call issues exactly one POST, and when that POST fails
\* at the network layer or its response has a non-success status, the call
\* ends in an error and returns no text.
C10_TransportErrors ==
    lastReturn # None =>
        /\ lastReturn[1].nposted = 1
        /\ (lastReturn[1].failed \/ lastReturn[1].status \notin 200..299)
              => lastReturn[1].outcome.kind = "raised"

(***************************************************************************)
(* The specifications                                                      *)
(***************************************************************************)

QANext ==
    \/ \E inp \in CallInputs : Call(inp)
    \/ \E g \in GeneratedTexts : GenerationReturns(g)
    \/ \E e \in GenErrors : GenerationRaises(e)
    \/ \E c \in Contexts : QueryReturns(c)
    \/ \E e \in GraphErrors : QueryRaises(e)
    \/ \E a \in AnswerTexts : SynthesisReturns(a)
    \/ \E e \in QAErrors : SynthesisRaises(e)
    \/ Finish

\* The pipeline from its idle state; no Writer exists and none is made.
InitQA ==
    QAInit /\ WInitIn({[WRITER_API_KEY |-> None, WRITER_ORG_ID |-> None]})

SpecQA == InitQA /\ [][QANext]_vars

\* The adapter from before its construction, under every environment; the
\* pipeline stays idle.
InitWriter ==
    QAInit /\ WInitIn(Environments)

SpecWriter == InitWriter /\ [][WNext]_vars
====
